---------------------------- MODULE Spec2Model ----------------------------
(***************************************************************************)
(* A model of package version (src/types/version/version.go): TryParse,    *)
(* Parse, Version.String and Version.Compare.                              *)
(*                                                                         *)
(* Go strings are modelled as sequences of one-character strings, a uint64 *)
(* as its four 16-bit limbs (least significant first), so that the range   *)
(* check of strconv.ParseUint and the decimal rendering of fmt's %d are    *)
(* computed on the real 64-bit width.                                      *)
(***************************************************************************)
EXTENDS Integers, Sequences, FiniteSets, TLC

VARIABLES
    input,  \* the string handed to TryParse / Parse
    pc,     \* position of the caller
    res,    \* (Version, error) returned by TryParse(input)
    resV,   \* (Version, error) returned by TryParse("v" + input)
    str,    \* res.v.String()
    out,    \* outcome of Parse(input): a returned Version or a panic value
    a, b, c,\* receiver and arguments of Compare
    cmp     \* the results of Compare on a, b, c

vars == <<input, pc, res, resV, str, out, a, b, c, cmp>>

-----------------------------------------------------------------------------
(* Bounds of the model. *)

\* Every string over Sigma of length at most MaxLen is an input of TryParse.
MaxLen == 4

\* Major, minor and patch of the compared versions range over 0..MaxField
\* (besides the values around the limb and the uint64 boundaries).
MaxField == 1

-----------------------------------------------------------------------------
(* Strings and bytes. *)

Digits == {"0", "1", "2", "3", "4", "5", "6", "7", "8", "9"}

Letters ==
    {"a", "b", "c", "d", "e", "f", "g", "h", "i", "j", "k", "l", "m",
     "n", "o", "p", "q", "r", "s", "t", "u", "v", "w", "x", "y", "z",
     "A", "B", "C", "D", "E", "F", "G", "H", "I", "J", "K", "L", "M",
     "N", "O", "P", "Q", "R", "S", "T", "U", "V", "W", "X", "Y", "Z"}

\* The bytes the strings of the model are made of, in code order: three runs
\* of the ASCII table, starting at bytes 43, 65 and 97; the underscore (95)
\* and the space (32).
Ascii43 ==
    <<"+", ",", "-", ".", "/", "0", "1", "2", "3", "4", "5", "6", "7", "8", "9">>

Ascii65 ==
    <<"A", "B", "C", "D", "E", "F", "G", "H", "I", "J", "K", "L", "M",
      "N", "O", "P", "Q", "R", "S", "T", "U", "V", "W", "X", "Y", "Z">>

Ascii97 ==
    <<"a", "b", "c", "d", "e", "f", "g", "h", "i", "j", "k", "l", "m",
      "n", "o", "p", "q", "r", "s", "t", "u", "v", "w", "x", "y", "z">>

IndexIn(seq, ch) == CHOOSE i \in 1..Len(seq) : seq[i] = ch

\* The byte value of a character.
Ord(ch) ==
    IF \E i \in 1..Len(Ascii43) : Ascii43[i] = ch THEN 42 + IndexIn(Ascii43, ch)
    ELSE IF \E i \in 1..Len(Ascii65) : Ascii65[i] = ch THEN 64 + IndexIn(Ascii65, ch)
    ELSE IF \E i \in 1..Len(Ascii97) : Ascii97[i] = ch THEN 96 + IndexIn(Ascii97, ch)
    ELSE IF ch = "_" THEN 95
    ELSE 32

\* s[i:j] of Go, with 1-based inclusive bounds.
Sub(s, i, j) == SubSeq(s, i, j)

\* The < of Go on strings: bytewise lexicographic, a proper prefix is smaller.
RECURSIVE StrLess(_, _)
StrLess(x, y) ==
    IF y = <<>> THEN FALSE
    ELSE IF x = <<>> THEN TRUE
    ELSE IF Head(x) # Head(y) THEN Ord(Head(x)) < Ord(Head(y))
    ELSE StrLess(Tail(x), Tail(y))

-----------------------------------------------------------------------------
(* uint64 *)

BitSize == 64

LimbBits == 16

LimbBase == 2^LimbBits

Limbs == BitSize \div LimbBits

\* The uint64 of a small natural number n < LimbBase^2.
U64(n) == [k \in 1..Limbs |-> IF k = 1 THEN n % LimbBase
                              ELSE IF k = 2 THEN n \div LimbBase
                              ELSE 0]

\* math.MaxUint64
MaxUint64 == [k \in 1..Limbs |-> LimbBase - 1]

\* x > y on uint64: decided by the most significant limb that differs.
RECURSIVE UintGreaterFrom(_, _, _)
UintGreaterFrom(x, y, k) ==
    IF k = 0 THEN FALSE
    ELSE IF x[k] # y[k] THEN x[k] > y[k]
    ELSE UintGreaterFrom(x, y, k - 1)

UintGreater(x, y) == UintGreaterFrom(x, y, Limbs)

\* n * 10 + d on the limbs from limb k upwards, with the carry out of the top
\* limb (a non-zero carry: the result does not fit 64 bits).
RECURSIVE MulAddFrom(_, _, _)
MulAddFrom(n, carry, k) ==
    IF k > Limbs THEN [n |-> n, carry |-> carry]
    ELSE LET t == n[k] * 10 + carry
         IN  MulAddFrom([n EXCEPT ![k] = t % LimbBase], t \div LimbBase, k + 1)

\* n \div 10 and n % 10 on the limbs, from limb k downwards.
RECURSIVE DivModFrom(_, _, _)
DivModFrom(n, rem, k) ==
    IF k = 0 THEN [q |-> n, r |-> rem]
    ELSE LET t == rem * LimbBase + n[k]
         IN  DivModFrom([n EXCEPT ![k] = t \div 10], t % 10, k - 1)

DigitChars == <<"0", "1", "2", "3", "4", "5", "6", "7", "8", "9">>

DigitVal(ch) == (CHOOSE i \in 1..10 : DigitChars[i] = ch) - 1

\* strconv.ParseUint(s, 10, 64) on the digits of s, most significant first:
\* n = n*10 + d, out of range as soon as the product or the sum leaves 64 bits.
RECURSIVE ParseDigits(_, _)
ParseDigits(s, n) ==
    IF s = <<>> THEN [n |-> n, ok |-> TRUE]
    ELSE LET r == MulAddFrom(n, DigitVal(Head(s)), 1)
         IN  IF r.carry # 0 THEN [n |-> MaxUint64, ok |-> FALSE]
             ELSE ParseDigits(Tail(s), r.n)

\* The decimal digits of n, as fmt's %d writes them.
RECURSIVE FormatUint(_)
FormatUint(n) ==
    LET d == DivModFrom(n, 0, Limbs)
    IN  IF d.q = U64(0) THEN <<DigitChars[d.r + 1]>>
        ELSE FormatUint(d.q) \o <<DigitChars[d.r + 1]>>

-----------------------------------------------------------------------------
(* Errors: a value has an identity and the errors it unwraps to. *)

Nil == [id |-> "nil", wraps |-> <<>>]

ErrorsNew(text) == [id |-> text, wraps |-> <<>>]

\* errors.Join(e1, e2) evaluated at `site`: a new value unwrapping to both.
ErrorsJoin(site, e1, e2) == [id |-> site, wraps |-> <<e1, e2>>]

ErrBase == ErrorsNew("version error")

ErrEmpty == ErrorsJoin("ErrEmpty", ErrBase, ErrorsNew("empty input"))

ErrInvalidFormat == ErrorsJoin("ErrInvalidFormat", ErrBase, ErrorsNew("invalid format"))

\* strconv.ErrRange and strconv.ErrSyntax, and the *strconv.NumError around them.
ErrRange == ErrorsNew("value out of range")

ErrSyntax == ErrorsNew("invalid syntax")

NumError(e) == [id |-> "strconv.NumError", wraps |-> <<e>>]

\* errors.Is(err, target): err is target, or something err unwraps to is.
RECURSIVE ErrorsIs(_, _)
ErrorsIs(err, target) ==
    \/ err.id = target.id
    \/ \E i \in 1..Len(err.wraps) : ErrorsIs(err.wraps[i], target)

\* strconv.ParseUint(s, 10, 64)
ParseUint(s) ==
    IF s = <<>> \/ \E i \in 1..Len(s) : s[i] \notin Digits
    THEN [n |-> U64(0), err |-> NumError(ErrSyntax)]
    ELSE LET r == ParseDigits(s, U64(0))
         IN  IF r.ok THEN [n |-> r.n, err |-> Nil]
             ELSE [n |-> r.n, err |-> NumError(ErrRange)]

-----------------------------------------------------------------------------
(* The regular expression re. *)

\* \d
IsDigit(ch) == ch \in Digits

\* [a-zA-Z-]
IsLetterOrHyphen(ch) == ch \in Letters \/ ch = "-"

\* [0-9a-zA-Z-]
IsIdChar(ch) == IsDigit(ch) \/ IsLetterOrHyphen(ch)

\* \d+ in place of 0|[1-9]\d*: leading zeros pass.
ReNumericLeadingZero(s) ==
    /\ Len(s) >= 1
    /\ \A i \in 1..Len(s) : IsDigit(s[i])

\* 0|[1-9]\d*
ReNumeric(s) ==
    \/ s = <<"0">>
    \/ /\ Len(s) >= 1
       /\ IsDigit(s[1]) /\ s[1] # "0"
       /\ \A i \in 2..Len(s) : IsDigit(s[i])

\* \d*[a-zA-Z-][0-9a-zA-Z-]*
ReAlphanumeric(s) ==
    \E k \in 1..Len(s) :
        /\ \A i \in 1..(k - 1) : IsDigit(s[i])
        /\ IsLetterOrHyphen(s[k])
        /\ \A i \in (k + 1)..Len(s) : IsIdChar(s[i])

\* 0|[1-9]\d*|\d*[a-zA-Z-][0-9a-zA-Z-]*
RePreReleaseId(s) == ReNumeric(s) \/ ReAlphanumeric(s)

\* group 4: ID(?:\.ID)* over the pre-release identifiers
RECURSIVE RePreRelease(_)
RePreRelease(s) ==
    \/ RePreReleaseId(s)
    \/ \E k \in 1..Len(s) :
        /\ s[k] = "."
        /\ RePreReleaseId(Sub(s, 1, k - 1))
        /\ RePreRelease(Sub(s, k + 1, Len(s)))

\* [0-9a-zA-Z-]+
ReBuildId(s) == Len(s) >= 1 /\ \A i \in 1..Len(s) : IsIdChar(s[i])

\* group 5: [0-9a-zA-Z-]+(?:\.[0-9a-zA-Z-]+)*
RECURSIVE ReBuild(_)
ReBuild(s) ==
    \/ ReBuildId(s)
    \/ \E k \in 1..Len(s) :
        /\ s[k] = "."
        /\ ReBuildId(Sub(s, 1, k - 1))
        /\ ReBuild(Sub(s, k + 1, Len(s)))

\* (?:-(group 4))? on s[e+1..f]: absent, or a hyphen and a pre-release.
RePreReleasePart(s, e, f) ==
    \/ f = e
    \/ f > e /\ s[e + 1] = "-" /\ RePreRelease(Sub(s, e + 2, f))

\* (?:\+(group 5))?$ on s[f+1..]: absent, or a plus and a build, to the end.
ReBuildPart(s, f) ==
    \/ f = Len(s)
    \/ f < Len(s) /\ s[f + 1] = "+" /\ ReBuild(Sub(s, f + 2, Len(s)))

\* Every way the whole of s matches re, as the submatches
\* <<whole, major, minor, patch, prerelease, build>>: the dots end major and
\* minor at d1 and d2, patch ends at e, the pre-release part at f, the build
\* part at the end of s. A group that takes no part is the empty string.
ReSubmatches(s) ==
    LET n == Len(s)
        Dots == {i \in 1..n : s[i] = "."}
    IN  UNION { UNION { UNION {
            { <<s, Sub(s, 1, d1 - 1), Sub(s, d1 + 1, d2 - 1), Sub(s, d2 + 1, e),
                Sub(s, e + 2, f), Sub(s, f + 2, n)>> :
              f \in {g \in e..n : RePreReleasePart(s, e, g) /\ ReBuildPart(s, g)} } :
            e \in {g \in (d2 + 1)..n : ReNumeric(Sub(s, d2 + 1, g))} } :
            d2 \in {g \in Dots : g > d1 /\ ReNumeric(Sub(s, d1 + 1, g - 1))} } :
            d1 \in {g \in Dots : ReNumeric(Sub(s, 1, g - 1))} }

\* re.MatchString(s)
ReMatchString(s) == ReSubmatches(s) # {}

\* re.FindStringSubmatch(s): nil without a match. The pattern is anchored and
\* every part is delimited by a character the part before it cannot hold, so
\* a string matches in at most one way.
ReFindStringSubmatch(s) ==
    IF ReSubmatches(s) = {} THEN <<>>
    ELSE CHOOSE m \in ReSubmatches(s) : TRUE

-----------------------------------------------------------------------------
(* Version *)

Version(major, minor, patch, prerelease, build) ==
    [Major |-> major, Minor |-> minor, Patch |-> patch,
     PreRelease |-> prerelease, Build |-> build]

\* Version{}
ZeroVersion == Version(U64(0), U64(0), U64(0), <<>>, <<>>)

\* String without the build metadata.
StringNoBuild(v) ==
    LET version == FormatUint(v.Major) \o <<".">> \o FormatUint(v.Minor)
                   \o <<".">> \o FormatUint(v.Patch)
    IN  IF v.PreRelease # <<>> THEN version \o <<"-">> \o v.PreRelease
        ELSE version

\* func (v Version) String() string
String(v) ==
    LET version == FormatUint(v.Major) \o <<".">> \o FormatUint(v.Minor)
                   \o <<".">> \o FormatUint(v.Patch)
        withPre == IF v.PreRelease # <<>> THEN version \o <<"-">> \o v.PreRelease
                   ELSE version
    IN  IF v.Build # <<>> THEN withPre \o <<"+">> \o v.Build
        ELSE withPre

\* func (v Version) Version() string
VersionTag(v) == <<"v">> \o String(v)

\* strings.HasPrefix(s, prefix)
HasPrefix(s, prefix) ==
    Len(s) >= Len(prefix) /\ Sub(s, 1, Len(prefix)) = prefix

\* strings.TrimLeft(s, prefix) for a one-character prefix: every leading
\* occurrence is removed, not only the first.
RECURSIVE TrimLeft(_, _)
TrimLeft(s, prefix) ==
    IF s # <<>> /\ <<Head(s)>> = prefix THEN TrimLeft(Tail(s), prefix) ELSE s

\* strings.TrimPrefix(s, prefix)
TrimPrefix(s, prefix) ==
    IF HasPrefix(s, prefix) THEN Sub(s, Len(prefix) + 1, Len(s)) ELSE s

\* TryParse from the grammar match on (lines 164-195), on the input without
\* its prefix. matches[i] of the code is matches[i + 1] here.
ParseMatched(version) ==
    IF ~ReMatchString(version) THEN [v |-> ZeroVersion, err |-> ErrInvalidFormat]
    ELSE
    LET matches == ReFindStringSubmatch(version)
    IN  IF Len(matches) < 6 THEN [v |-> ZeroVersion, err |-> ErrInvalidFormat]
        ELSE
        LET major == ParseUint(matches[2])
            minor == ParseUint(matches[3])
            patch == ParseUint(matches[4])
        IN  IF major.err # Nil
            THEN [v |-> ZeroVersion, err |-> ErrorsJoin("TryParse:176", ErrBase, major.err)]
            ELSE IF minor.err # Nil
            THEN [v |-> ZeroVersion, err |-> ErrorsJoin("TryParse:181", ErrBase, minor.err)]
            ELSE IF patch.err # Nil
            THEN [v |-> ZeroVersion, err |-> ErrorsJoin("TryParse:186", ErrBase, patch.err)]
            ELSE [v |-> Version(major.n, minor.n, patch.n, matches[5], matches[6]),
                  err |-> Nil]

\* TryParse with the empty check made after the prefix is trimmed.
TryParseTrimFirst(s) ==
    LET version == TrimPrefix(s, <<"v">>)
    IN  IF version = <<>> THEN [v |-> ZeroVersion, err |-> ErrEmpty]
        ELSE ParseMatched(version)

\* func TryParse(input string) (Version, error)
TryParse(s) ==
    IF s = <<>> THEN [v |-> ZeroVersion, err |-> ErrEmpty]
    ELSE ParseMatched(TrimPrefix(s, <<"v">>))

\* No Version: Parse did not return.
NoVersion == <<>>

\* Parse returning the Version of TryParse whatever its error, without a panic.
ParseNoPanic(s) ==
    LET r == TryParse(s)
    IN  [panic |-> Nil, ret |-> r.v]

\* func Parse(input string) Version: the returned Version, or the panic value.
Parse(s) ==
    LET r == TryParse(s)
    IN  IF r.err # Nil THEN [panic |-> r.err, ret |-> NoVersion]
        ELSE [panic |-> Nil, ret |-> r.v]

-----------------------------------------------------------------------------
(* Compare *)

\* Compare looking at the minor number before the major number.
CompareMinorFirst(v, other) ==
    IF v.Minor # other.Minor
    THEN (IF UintGreater(v.Minor, other.Minor) THEN 1 ELSE -1)
    ELSE
    IF v.Major # other.Major
    THEN (IF UintGreater(v.Major, other.Major) THEN 1 ELSE -1)
    ELSE
    IF v.Patch # other.Patch
    THEN (IF UintGreater(v.Patch, other.Patch) THEN 1 ELSE -1)
    ELSE
    IF v.PreRelease = <<>> /\ other.PreRelease # <<>> THEN 1
    ELSE IF v.PreRelease # <<>> /\ other.PreRelease = <<>> THEN -1
    ELSE IF v.PreRelease # <<>> /\ other.PreRelease # <<>>
    THEN (IF StrLess(other.PreRelease, v.PreRelease) THEN 1
          ELSE IF StrLess(v.PreRelease, other.PreRelease) THEN -1
          ELSE 0)
    ELSE 0

\* Compare without the pre-release against release branch of lines 127-130.
CompareNoPreReleaseRule(v, other) ==
    IF v.Major # other.Major
    THEN (IF UintGreater(v.Major, other.Major) THEN 1 ELSE -1)
    ELSE
    IF v.Minor # other.Minor
    THEN (IF UintGreater(v.Minor, other.Minor) THEN 1 ELSE -1)
    ELSE
    IF v.Patch # other.Patch
    THEN (IF UintGreater(v.Patch, other.Patch) THEN 1 ELSE -1)
    ELSE
    IF v.PreRelease = <<>> /\ other.PreRelease # <<>> THEN 1
    ELSE IF v.PreRelease # <<>> /\ other.PreRelease # <<>>
    THEN (IF StrLess(other.PreRelease, v.PreRelease) THEN 1
          ELSE IF StrLess(v.PreRelease, other.PreRelease) THEN -1
          ELSE 0)
    ELSE 0

\* Compare with line 136 returning 1, as line 134 does.
CompareSameSign(v, other) ==
    IF v.Major # other.Major
    THEN (IF UintGreater(v.Major, other.Major) THEN 1 ELSE -1)
    ELSE
    IF v.Minor # other.Minor
    THEN (IF UintGreater(v.Minor, other.Minor) THEN 1 ELSE -1)
    ELSE
    IF v.Patch # other.Patch
    THEN (IF UintGreater(v.Patch, other.Patch) THEN 1 ELSE -1)
    ELSE
    IF v.PreRelease = <<>> /\ other.PreRelease # <<>> THEN 1
    ELSE IF v.PreRelease # <<>> /\ other.PreRelease = <<>> THEN -1
    ELSE IF v.PreRelease # <<>> /\ other.PreRelease # <<>>
    THEN (IF StrLess(other.PreRelease, v.PreRelease) THEN 1
          ELSE IF StrLess(v.PreRelease, other.PreRelease) THEN 1
          ELSE 0)
    ELSE 0

\* Compare breaking a tie on the build metadata.
CompareWithBuild(v, other) ==
    IF v.Major # other.Major
    THEN (IF UintGreater(v.Major, other.Major) THEN 1 ELSE -1)
    ELSE
    IF v.Minor # other.Minor
    THEN (IF UintGreater(v.Minor, other.Minor) THEN 1 ELSE -1)
    ELSE
    IF v.Patch # other.Patch
    THEN (IF UintGreater(v.Patch, other.Patch) THEN 1 ELSE -1)
    ELSE
    IF v.PreRelease = <<>> /\ other.PreRelease # <<>> THEN 1
    ELSE IF v.PreRelease # <<>> /\ other.PreRelease = <<>> THEN -1
    ELSE IF v.PreRelease # <<>> /\ other.PreRelease # <<>>
    THEN (IF StrLess(other.PreRelease, v.PreRelease) THEN 1
          ELSE IF StrLess(v.PreRelease, other.PreRelease) THEN -1
          ELSE (IF StrLess(other.Build, v.Build) THEN 1
           ELSE IF StrLess(v.Build, other.Build) THEN -1 ELSE 0))
    ELSE (IF StrLess(other.Build, v.Build) THEN 1
           ELSE IF StrLess(v.Build, other.Build) THEN -1 ELSE 0)

\* func (v Version) Compare(other Version) int8
Compare(v, other) ==
    IF v.Major # other.Major
    THEN (IF UintGreater(v.Major, other.Major) THEN 1 ELSE -1)
    ELSE
    IF v.Minor # other.Minor
    THEN (IF UintGreater(v.Minor, other.Minor) THEN 1 ELSE -1)
    ELSE
    IF v.Patch # other.Patch
    THEN (IF UintGreater(v.Patch, other.Patch) THEN 1 ELSE -1)
    ELSE
    IF v.PreRelease = <<>> /\ other.PreRelease # <<>> THEN 1
    ELSE IF v.PreRelease # <<>> /\ other.PreRelease = <<>> THEN -1
    ELSE IF v.PreRelease # <<>> /\ other.PreRelease # <<>>
    THEN (IF StrLess(other.PreRelease, v.PreRelease) THEN 1
          ELSE IF StrLess(v.PreRelease, other.PreRelease) THEN -1
          ELSE 0)
    ELSE 0

-----------------------------------------------------------------------------
(* The inputs of TryParse. *)

\* The characters of the exhaustively enumerated inputs.
Sigma == {"v", "0", "1", ".", "-", "+"}

\* Every string over Sigma of length n.
RECURSIVE StringsOfLen(_)
StringsOfLen(n) ==
    IF n = 0 THEN {<<>>}
    ELSE {<<ch>> \o s : ch \in Sigma, s \in StringsOfLen(n - 1)}

ShortInputs == UNION {StringsOfLen(n) : n \in 0..MaxLen}

\* Numeric components: small ones, with and without a leading zero.
SmallNumbers ==
    {
     <<"0">>,
     <<"1">>,
     <<"1", "0">>,
     <<"0", "1">> }

\* Numeric components around the limb and the uint64 boundaries:
\* 2^16 - 1, 2^16, 2^32, 2^64 - 1, 2^64 and 10^20 - 1.
BigNumbers ==
    {
     <<"6", "5", "5", "3", "5">>,
     <<"6", "5", "5", "3", "6">>,
     <<"4", "2", "9", "4", "9", "6", "7", "2", "9", "6">>,
     <<"1", "8", "4", "4", "6", "7", "4", "4", "0", "7", "3", "7", "0", "9", "5", "5", "1", "6", "1", "5">>,
     <<"1", "8", "4", "4", "6", "7", "4", "4", "0", "7", "3", "7", "0", "9", "5", "5", "1", "6", "1", "6">>,
     <<"9", "9", "9", "9", "9", "9", "9", "9", "9", "9", "9", "9", "9", "9", "9", "9", "9", "9", "9", "9">> }

Dotted(x, y, z) == x \o <<".">> \o y \o <<".">> \o z

SmallCores == {Dotted(x, y, z) : x \in SmallNumbers, y \in SmallNumbers, z \in SmallNumbers}

\* One component near a boundary, in each of the three places.
BigCores ==
    UNION { {Dotted(n, x, y), Dotted(x, n, y), Dotted(x, y, n)} :
            n \in BigNumbers, x \in {<<"0">>, <<"1">>}, y \in {<<"0">>, <<"7">>} }

\* What follows the patch number up to the build: no pre-release, well-formed
\* ones, and malformed ones (leading zero, empty identifier, foreign byte).
PreReleaseSuffixes ==
    {
     <<>>,
     <<"-", "a", "l", "p", "h", "a">>,
     <<"-", "a", "l", "p", "h", "a", ".", "2">>,
     <<"-", "0">>,
     <<"-", "0", "a", ".", "x", "-", "y">>,
     <<"-", "1", ".", "0", "-", "x">>,
     <<"-", "0", "1">>,
     <<"-">>,
     <<"-", "a", ".", ".", "b">>,
     <<"-", "a", ".">>,
     <<"-", "a", "_", "b">>,
     <<"-", "a", " ", "b">> }

\* What follows from the build on.
BuildSuffixes ==
    {
     <<>>,
     <<"+", "0", "0", "1">>,
     <<"+", "b", ".", "1", "-", "x">>,
     <<"+">>,
     <<"+", "a", ".", ".", "b">>,
     <<"+", "a", "+", "b">> }

\* The inputs of the tests, and inputs with text around a version.
ListedInputs ==
    {
     <<"1", ".", "0", ".", "0">>,
     <<"v", "2", ".", "1", ".", "3">>,
     <<"1", ".", "2", ".", "3", "-", "a", "l", "p", "h", "a">>,
     <<"1", ".", "2", ".", "3", "+", "b", "u", "i", "l", "d", ".", "1", "2", "3">>,
     <<"1", ".", "2", ".", "3", "-", "b", "e", "t", "a", "+", "e", "x", "p", ".", "s", "h", "a", ".", "5", "1", "1", "4", "f", "8", "5">>,
     <<"i", "n", "v", "a", "l", "i", "d", "-", "v", "e", "r", "s", "i", "o", "n">>,
     <<"1", ".", "2">>,
     <<"1", ".", "2", ".", "3", ".", "4">>,
     <<"v", "v", "1", ".", "2", ".", "3">>,
     <<"V", "1", ".", "2", ".", "3">>,
     <<"1", ".", "2", ".", "3", " ">>,
     <<" ", "1", ".", "2", ".", "3">>,
     <<"1", ".", "2", ".", "3", "v">>,
     <<"1", ".", "2", ".", "3", "-", "a", "l", "p", "h", "a", ".", "1", "0", "+", "x">>,
     <<"1", ".", "v", "2", ".", "3">>,
     <<"1", ".", "2", ".", "3", "-", "v", "1", "+", "v", "2">> }

Unprefixed ==
    {core \o pre \o build :
        core \in SmallCores, pre \in PreReleaseSuffixes, build \in BuildSuffixes}
    \cup
    {core \o pre \o build :
        core \in BigCores, pre \in {<<>>, <<"-", "r", "c", ".", "1">>},
        build \in {<<>>, <<"+", "0", "0", "1">>}}

Inputs ==
    ShortInputs \cup ListedInputs \cup Unprefixed \cup {<<"v">> \o s : s \in Unprefixed}

-----------------------------------------------------------------------------
(* The versions handed to Compare. *)

SmallFields == {U64(n) : n \in 0..MaxField}

\* 2^16 - 1 and 2^16 (the order of the low limbs is against the order of the
\* numbers), and 2^64 - 1.
BigFields == {U64(65535), U64(65536), MaxUint64}

PreReleases ==
    {
     <<>>,
     <<"a", "l", "p", "h", "a">>,
     <<"a", "l", "p", "h", "a", ".", "2">>,
     <<"a", "l", "p", "h", "a", ".", "1", "0">>,
     <<"a", "l", "p", "h", "a", "-", "1">>,
     <<"b", "e", "t", "a">>,
     <<"1">>,
     <<"-">> }

Builds ==
    {
     <<>>,
     <<"0", "0", "1">>,
     <<"0", "0", "2">> }

Versions ==
    {Version(x, y, z, pre, <<>>) :
        x \in SmallFields, y \in SmallFields, z \in SmallFields,
        pre \in {<<>>, <<"a", "l", "p", "h", "a">>}}
    \cup
    {Version(U64(1), U64(0), U64(0), pre, build) : pre \in PreReleases, build \in Builds}
    \cup
    UNION { {Version(n, U64(0), U64(1), <<>>, <<>>),
             Version(U64(1), n, U64(0), <<>>, <<"0", "0", "1">>),
             Version(U64(1), U64(0), n, <<"b", "e", "t", "a">>, <<>>)} : n \in BigFields }

-----------------------------------------------------------------------------
(* The callers: one parses, renders and re-parses an input, the other        *)
(* compares three versions.                                                 *)

\* A result not yet returned.
NotCalled == [v |-> ZeroVersion, err |-> ErrorsNew("not called")]

NotReturned == [panic |-> Nil, ret |-> NoVersion]

NotCompared == [ab |-> 0, ba |-> 0, bc |-> 0, ac |-> 0, aa |-> 0]

InitParse ==
    /\ input \in Inputs
    /\ pc = "start"
    /\ res = NotCalled
    /\ resV = NotCalled
    /\ str = <<>>
    /\ out = NotReturned
    /\ a = ZeroVersion /\ b = ZeroVersion /\ c = ZeroVersion
    /\ cmp = NotCompared

InitCompare ==
    /\ input = <<>>
    /\ pc = "compare"
    /\ res = NotCalled
    /\ resV = NotCalled
    /\ str = <<>>
    /\ out = NotReturned
    /\ a \in Versions /\ b \in Versions /\ c \in Versions
    /\ cmp = NotCompared

\* res := TryParse(input)
CallTryParse ==
    /\ pc = "start"
    /\ res' = TryParse(input)
    /\ pc' = "parsed"
    /\ UNCHANGED <<input, resV, str, out, a, b, c, cmp>>

\* resV := TryParse("v" + input)
CallTryParsePrefixed ==
    /\ pc = "parsed"
    /\ resV' = TryParse(<<"v">> \o input)
    /\ pc' = "prefixed"
    /\ UNCHANGED <<input, res, str, out, a, b, c, cmp>>

\* str := res.v.String()
CallString ==
    /\ pc = "prefixed"
    /\ str' = String(res.v)
    /\ pc' = "rendered"
    /\ UNCHANGED <<input, res, resV, out, a, b, c, cmp>>

\* out := Parse(input), or its panic
CallParse ==
    /\ pc = "rendered"
    /\ out' = Parse(input)
    /\ pc' = "done"
    /\ UNCHANGED <<input, res, resV, str, a, b, c, cmp>>

\* cmp := the results of Compare between a, b and c
CallCompare ==
    /\ pc = "compare"
    /\ cmp' = [ab |-> Compare(a, b), ba |-> Compare(b, a), bc |-> Compare(b, c),
               ac |-> Compare(a, c), aa |-> Compare(a, a)]
    /\ pc' = "compared"
    /\ UNCHANGED <<input, res, resV, str, out, a, b, c>>

NextParse == CallTryParse \/ CallTryParsePrefixed \/ CallString \/ CallParse

NextCompare == CallCompare

SpecParse == InitParse /\ [][NextParse]_vars

SpecCompare == InitCompare /\ [][NextCompare]_vars

-----------------------------------------------------------------------------
(* The SemVer 2.0.0 grammar and precedence, stated from the specification   *)
(* (semver.org, items 2, 9, 10 and 11) for the properties below.            *)

\* The position of the first ch in s, 0 when there is none.
FirstIndex(s, ch) ==
    IF \E i \in 1..Len(s) : s[i] = ch
    THEN CHOOSE i \in 1..Len(s) : s[i] = ch /\ \A j \in 1..(i - 1) : s[j] # ch
    ELSE 0

\* The parts of s between the occurrences of ch.
RECURSIVE SplitOn(_, _)
SplitOn(s, ch) ==
    LET k == FirstIndex(s, ch)
    IN  IF k = 0 THEN <<s>>
        ELSE <<Sub(s, 1, k - 1)>> \o SplitOn(Sub(s, k + 1, Len(s)), ch)

AllDigits(s) == \A i \in 1..Len(s) : s[i] \in Digits

\* <numeric identifier>: digits, without a leading zero unless it is "0".
NumericIdentifier(s) == s # <<>> /\ AllDigits(s) /\ (Len(s) > 1 => s[1] # "0")

\* An identifier of build metadata: non-empty, of [0-9A-Za-z-].
BuildIdentifier(s) ==
    s # <<>> /\ \A i \in 1..Len(s) : s[i] \in Digits \cup Letters \cup {"-"}

\* An identifier of a pre-release: the same, and numeric ones have no leading zero.
PreReleaseIdentifier(s) == BuildIdentifier(s) /\ (AllDigits(s) => NumericIdentifier(s))

\* s without its build metadata; the build metadata of s.
BeforeBuild(s) ==
    IF FirstIndex(s, "+") = 0 THEN s ELSE Sub(s, 1, FirstIndex(s, "+") - 1)

BuildOf(s) ==
    IF FirstIndex(s, "+") = 0 THEN <<>> ELSE Sub(s, FirstIndex(s, "+") + 1, Len(s))

\* MAJOR.MINOR.PATCH of s; the pre-release of s.
CoreOf(s) ==
    LET m == BeforeBuild(s)
    IN  IF FirstIndex(m, "-") = 0 THEN m ELSE Sub(m, 1, FirstIndex(m, "-") - 1)

PreReleaseOf(s) ==
    LET m == BeforeBuild(s)
    IN  IF FirstIndex(m, "-") = 0 THEN <<>> ELSE Sub(m, FirstIndex(m, "-") + 1, Len(m))

\* s is MAJOR.MINOR.PATCH[-PRERELEASE][+BUILD].
SemVerValid(s) ==
    LET core == SplitOn(CoreOf(s), ".")
        pre == SplitOn(PreReleaseOf(s), ".")
        build == SplitOn(BuildOf(s), ".")
    IN  /\ Len(core) = 3
        /\ \A i \in 1..3 : NumericIdentifier(core[i])
        /\ FirstIndex(BeforeBuild(s), "-") # 0 =>
               \A i \in 1..Len(pre) : PreReleaseIdentifier(pre[i])
        /\ FirstIndex(s, "+") # 0 =>
               \A i \in 1..Len(build) : BuildIdentifier(build[i])

\* x < y for numbers written in decimal without leading zeros.
DecimalLess(x, y) ==
    \/ Len(x) < Len(y)
    \/ /\ Len(x) = Len(y)
       /\ \E i \in 1..Len(x) :
            /\ \A j \in 1..(i - 1) : x[j] = y[j]
            /\ DigitVal(x[i]) < DigitVal(y[i])

\* 2^64 - 1 in decimal.
MaxUint64Decimal ==
    <<"1", "8", "4", "4", "6", "7", "4", "4", "0", "7",
      "3", "7", "0", "9", "5", "5", "1", "6", "1", "5">>

\* Major, minor and patch of the grammar-valid s are all at most 2^64 - 1.
CoreFitsUint64(s) ==
    \A i \in 1..3 : ~DecimalLess(MaxUint64Decimal, SplitOn(CoreOf(s), ".")[i])

\* s without one leading "v".
Stripped(s) == IF s # <<>> /\ Head(s) = "v" THEN Tail(s) ELSE s

\* x < y as numbers, for uint64 values.
NumLess(x, y) ==
    \E k \in 1..Limbs : x[k] < y[k] /\ \A j \in (k + 1)..Limbs : x[j] = y[j]

\* Precedence of two pre-release identifiers (semver.org item 11.4): -1, 0, 1.
IdentifierPrecedence(x, y) ==
    IF x = y THEN 0
    ELSE IF AllDigits(x) /\ AllDigits(y) THEN (IF DecimalLess(x, y) THEN -1 ELSE 1)
    ELSE IF AllDigits(x) THEN -1
    ELSE IF AllDigits(y) THEN 1
    ELSE IF StrLess(x, y) THEN -1 ELSE 1

\* Precedence of two sequences of pre-release identifiers.
RECURSIVE FieldwisePrecedence(_, _)
FieldwisePrecedence(xs, ys) ==
    IF xs = <<>> /\ ys = <<>> THEN 0
    ELSE IF xs = <<>> THEN -1
    ELSE IF ys = <<>> THEN 1
    ELSE IF IdentifierPrecedence(Head(xs), Head(ys)) # 0
         THEN IdentifierPrecedence(Head(xs), Head(ys))
    ELSE FieldwisePrecedence(Tail(xs), Tail(ys))

SameCore(x, y) == x.Major = y.Major /\ x.Minor = y.Minor /\ x.Patch = y.Patch

-----------------------------------------------------------------------------
(* Properties *)

Parsed == pc \in {"parsed", "prefixed", "rendered", "done"}

Prefixed == pc \in {"prefixed", "rendered", "done"}

Rendered == pc \in {"rendered", "done"}

Compared == pc = "compared"

\* C1, as stated: every input that matches the grammar parses, and String()
\* of the parsed Version is the input again.
C1_RoundTripEveryValid ==
    (Parsed /\ SemVerValid(input)) =>
        /\ res.err = Nil
        /\ Rendered => str = input

\* C1, amended: every input that matches the grammar and whose major, minor
\* and patch are each at most 2^64 - 1 parses, with the pre-release and the
\* build kept verbatim, and String() of the parsed Version is the input again.
C1_RoundTrip ==
    (Parsed /\ SemVerValid(input) /\ CoreFitsUint64(input)) =>
        /\ res.err = Nil
        /\ res.v.PreRelease = PreReleaseOf(input)
        /\ res.v.Build = BuildOf(input)
        /\ Rendered => str = input

\* A version with 2^64 - 1 as a component, a pre-release and a build has been
\* parsed and rendered back to the input.
C1_Witness ==
    /\ pc = "rendered"
    /\ SemVerValid(input) /\ CoreFitsUint64(input)
    /\ MaxUint64 \in {res.v.Major, res.v.Minor, res.v.Patch}
    /\ res.v.PreRelease # <<>> /\ res.v.Build # <<>>
    /\ str = input

\* C2: Compare is decided by the first of major, minor, patch that differs,
\* in that order and by the numeric order of that field, whatever the fields
\* after it hold.
C2_FirstDifferingField ==
    Compared =>
        /\ a.Major # b.Major =>
               cmp.ab = (IF NumLess(b.Major, a.Major) THEN 1 ELSE -1)
        /\ (a.Major = b.Major /\ a.Minor # b.Minor) =>
               cmp.ab = (IF NumLess(b.Minor, a.Minor) THEN 1 ELSE -1)
        /\ (a.Major = b.Major /\ a.Minor = b.Minor /\ a.Patch # b.Patch) =>
               cmp.ab = (IF NumLess(b.Patch, a.Patch) THEN 1 ELSE -1)

\* The greater major decided against a smaller minor, across a limb boundary.
C2_Witness ==
    /\ Compared
    /\ NumLess(b.Major, a.Major) /\ b.Major[1] > a.Major[1]
    /\ NumLess(a.Minor, b.Minor)
    /\ cmp.ab = 1

\* C3: with equal major, minor and patch, a version without a pre-release is
\* greater than one with a pre-release, in both directions of the call and
\* whatever the builds.
C3_ReleaseAbovePreRelease ==
    (Compared /\ SameCore(a, b) /\ a.PreRelease = <<>> /\ b.PreRelease # <<>>) =>
        cmp.ab = 1 /\ cmp.ba = -1

\* A release was compared with its pre-release, their builds differing.
C3_Witness ==
    /\ Compared /\ SameCore(a, b)
    /\ a.PreRelease = <<>> /\ b.PreRelease # <<>>
    /\ a.Build # b.Build
    /\ cmp.ab = 1 /\ cmp.ba = -1

\* C4, as stated: with equal major, minor and patch and two pre-releases,
\* Compare is the field-wise identifier precedence of SemVer 2.0.0.
C4_FieldwisePreRelease ==
    (Compared /\ SameCore(a, b) /\ a.PreRelease # <<>> /\ b.PreRelease # <<>>) =>
        cmp.ab = FieldwisePrecedence(SplitOn(a.PreRelease, "."),
                                     SplitOn(b.PreRelease, "."))

\* C5: Compare is a total order: equal to itself, antisymmetric with results
\* in {-1, 0, 1}, and transitive, strictly so when a premise is strict.
C5_TotalOrder ==
    Compared =>
        /\ cmp.aa = 0
        /\ cmp.ab \in {-1, 0, 1}
        /\ cmp.ab = -cmp.ba
        /\ (cmp.ab >= 0 /\ cmp.bc >= 0) =>
               /\ cmp.ac >= 0
               /\ (cmp.ab = 1 \/ cmp.bc = 1) => cmp.ac = 1

\* A release above a pre-release above a smaller pre-release.
C5_Witness ==
    /\ Compared /\ SameCore(a, b) /\ SameCore(b, c)
    /\ a.PreRelease = <<>> /\ b.PreRelease # <<>> /\ c.PreRelease # <<>>
    /\ cmp.ab = 1 /\ cmp.bc = 1 /\ cmp.ac = 1

\* C6: the builds never change Compare: with any builds in place of those of
\* a and b the result is that of a.Compare(b), and versions that differ in
\* the build alone compare as 0.
C6_BuildIgnored ==
    Compared =>
        /\ \A x \in Builds, y \in Builds :
               Compare([a EXCEPT !.Build = x], [b EXCEPT !.Build = y]) = cmp.ab
        /\ [a EXCEPT !.Build = <<>>] = [b EXCEPT !.Build = <<>>] => cmp.ab = 0

\* Two versions with a pre-release that differ in the build alone compared as 0.
C6_Witness ==
    /\ Compared
    /\ a.Build # b.Build /\ a.Build # <<>> /\ b.Build # <<>>
    /\ [a EXCEPT !.Build = <<>>] = [b EXCEPT !.Build = <<>>]
    /\ a.PreRelease # <<>>
    /\ cmp.ab = 0

\* C7, as stated: for every input s that matches the grammar, TryParse(s) and
\* TryParse("v" + s) both succeed with equal Versions.
C7_PrefixEveryValid ==
    (Prefixed /\ SemVerValid(input)) =>
        res.err = Nil /\ resV.err = Nil /\ resV.v = res.v

\* C7, amended: for every input s that matches the grammar and whose major,
\* minor and patch are each at most 2^64 - 1, TryParse(s) and TryParse("v" + s)
\* both succeed with equal Versions; one leading "v" is stripped and no more:
\* "vv" + s does not parse.
C7_PrefixNormalization ==
    /\ (Prefixed /\ SemVerValid(input) /\ CoreFitsUint64(input)) =>
           res.err = Nil /\ resV.err = Nil /\ resV.v = res.v
    /\ (Prefixed /\ input # <<>> /\ Head(input) = "v"
            /\ SemVerValid(Tail(input)) /\ CoreFitsUint64(Tail(input))) =>
           /\ res.err = Nil
           /\ resV.v = ZeroVersion /\ ErrorsIs(resV.err, ErrInvalidFormat)

\* An input with a pre-release holding a "v" parsed alike with and without
\* the prefix.
C7_Witness ==
    /\ pc = "prefixed"
    /\ SemVerValid(input) /\ CoreFitsUint64(input)
    /\ res.err = Nil /\ resV = res
    /\ \E i \in 1..Len(res.v.PreRelease) : res.v.PreRelease[i] = "v"
    /\ \E i \in 1..Len(res.v.Build) : res.v.Build[i] = "v"

\* C8, as stated: ErrEmpty whenever the input without its "v" prefix is
\* empty, never ErrInvalidFormat.
C8_EmptyAfterTrim ==
    (Parsed /\ Stripped(input) = <<>>) =>
        /\ res.v = ZeroVersion
        /\ ErrorsIs(res.err, ErrEmpty)
        /\ ~ErrorsIs(res.err, ErrInvalidFormat)

\* C8, amended: ErrEmpty exactly when the input itself is the empty string,
\* the check being made before the prefix is stripped: "" yields the zero
\* Version with ErrEmpty and never ErrInvalidFormat; "v", whose stripped form
\* is empty, yields the zero Version with ErrInvalidFormat.
C8_EmptyInput ==
    /\ Parsed => (ErrorsIs(res.err, ErrEmpty) <=> input = <<>>)
    /\ (Parsed /\ input = <<>>) =>
           res.v = ZeroVersion /\ ~ErrorsIs(res.err, ErrInvalidFormat)
    /\ (Parsed /\ input = <<"v">>) =>
           res.v = ZeroVersion /\ ErrorsIs(res.err, ErrInvalidFormat)
    /\ (Prefixed /\ input = <<>>) =>
           resV.v = ZeroVersion /\ ErrorsIs(resV.err, ErrInvalidFormat)

\* The empty input got ErrEmpty, and "v" ErrInvalidFormat.
C8_Witness ==
    /\ pc = "prefixed" /\ input = <<>>
    /\ res = [v |-> ZeroVersion, err |-> ErrEmpty]
    /\ resV = [v |-> ZeroVersion, err |-> ErrInvalidFormat]

\* C9: an input whose form without the prefix is not empty and does not match
\* the grammar as a whole gets the zero Version and ErrInvalidFormat.
C9_InvalidFormat ==
    (Parsed /\ Stripped(input) # <<>> /\ ~SemVerValid(Stripped(input))) =>
        /\ res.v = ZeroVersion
        /\ ErrorsIs(res.err, ErrInvalidFormat)

\* A prefixed input with a leading zero in its minor number was refused.
C9_Witness ==
    /\ pc = "parsed"
    /\ input # <<>> /\ Head(input) = "v"
    /\ Len(SplitOn(CoreOf(Stripped(input)), ".")) = 3
    /\ SplitOn(CoreOf(Stripped(input)), ".")[2] = <<"0", "1">>
    /\ NumericIdentifier(SplitOn(CoreOf(Stripped(input)), ".")[1])
    /\ res = [v |-> ZeroVersion, err |-> ErrInvalidFormat]

\* C10, as stated: an input that matches the grammar with a major, minor or
\* patch above 2^64 - 1 gets the zero Version and an error that is
\* ErrInvalidFormat, and every error of TryParse is ErrEmpty or
\* ErrInvalidFormat.
C10_OverflowIsInvalidFormat ==
    /\ (Parsed /\ SemVerValid(Stripped(input)) /\ ~CoreFitsUint64(Stripped(input))) =>
           res.v = ZeroVersion /\ ErrorsIs(res.err, ErrInvalidFormat)
    /\ (Parsed /\ res.err # Nil) =>
           ErrorsIs(res.err, ErrEmpty) \/ ErrorsIs(res.err, ErrInvalidFormat)

\* C11: Parse adds nothing to TryParse: where TryParse(input) returns a
\* Version and no error, Parse(input) returns that Version and does not
\* panic; where TryParse(input) returns an error, Parse(input) panics with
\* that error (ErrEmpty for "", ErrInvalidFormat for a malformed input) and
\* returns no Version.
C11_ParseDelegates ==
    pc = "done" =>
        /\ res.err = Nil => (out.panic = Nil /\ out.ret = res.v)
        /\ res.err # Nil => (out.panic = res.err /\ out.ret = NoVersion)
        /\ input = <<>> => out.panic = ErrEmpty
        /\ (Stripped(input) # <<>> /\ ~SemVerValid(Stripped(input))) =>
               out.panic = ErrInvalidFormat

\* Parse panicked with the ErrInvalidFormat of TryParse on a malformed input.
C11_Witness ==
    /\ pc = "done"
    /\ input # <<>> /\ ~SemVerValid(Stripped(input))
    /\ res.err = ErrInvalidFormat
    /\ out = [panic |-> ErrInvalidFormat, ret |-> NoVersion]

\* Parse returned the Version of TryParse, with a pre-release and a build.
C11_WitnessReturn ==
    /\ pc = "done"
    /\ res.err = Nil
    /\ res.v.PreRelease # <<>> /\ res.v.Build # <<>>
    /\ out = [panic |-> Nil, ret |-> res.v]

=============================================================================
